---- MODULE Spec2Model ----
(***************************************************************************)
(* The payments engine of src/src/main.rs: a ledger (Database) of stored   *)
(* Deposit/Withdrawal transactions and per-client accounts, and the        *)
(* handler handle_transaction that run_engine folds over the feed.          *)
(*                                                                         *)
(* Amounts are f64 in the source.  The model draws them from 1..MaxAmount, *)
(* read as multiples of a unit that f64 represents exactly, so that every  *)
(* sum and difference the handler computes is exact and integer arithmetic *)
(* gives the same results as the f64 arithmetic of the source.  An absent  *)
(* amount (Option::None) is the empty sequence, Some(a) is <<a>>.          *)
(***************************************************************************)
EXTENDS Integers, Sequences, FiniteSets, TLC

\* Bounds of the model.
NumClients == 2
NumTxns == 2
MaxAmount == 2
MaxFeed == 4
MaxReorder == 3
MaxPremature == 4

ClientIds == 1..NumClients
TxnIds == 1..NumTxns
Amounts == 1..MaxAmount

None == <<>>
Some(a) == <<a>>
OptAmounts == {None} \cup {Some(a) : a \in Amounts}

TransactionType == {"Deposit", "Withdrawal", "Dispute", "Resolve", "ChargeBack"}

Transaction ==
  [transaction_type : TransactionType, client_id : ClientIds,
   txn_id : TxnIds, amount : OptAmounts]

\* Client::default(): zero balances, unlocked, no disputes.
DefaultClient == [available |-> 0, held |-> 0, locked |-> FALSE, disputed |-> {}]

\* Database::default(): two empty maps.
DefaultDatabase == [transactions |-> <<>>, clients |-> <<>>]

\* HashMap::insert: the entry under key k is written or replaced.
MapInsert(m, k, v) == [x \in (DOMAIN m) \cup {k} |-> IF x = k THEN v ELSE m[x]]

\* db.clients.entry(id).or_insert(Client::default())
entry_or_insert(clients, id) ==
  IF id \in DOMAIN clients THEN clients ELSE MapInsert(clients, id, DefaultClient)

\* db.transactions.get(&txn_id): None, or Some(the stored transaction).
transactions_get(transactions, id) ==
  IF id \in DOMAIN transactions THEN Some(transactions[id]) ELSE None

\* The client record of txn.client_id replaced by c.
WithClient(db, id, c) == [db EXCEPT !.clients = MapInsert(db.clients, id, c)]

\* A variant of arm_Deposit that credits the client and forgets to store the
\* transaction.
arm_Deposit_unrecorded(db, txn, amount) ==
  LET client == db.clients[txn.client_id]
  IN  WithClient(db, txn.client_id,
        [client EXCEPT !.available = client.available + amount])

\* A variant of arm_Deposit that keeps the entry already stored under the txn_id.
arm_Deposit_keeps_first(db, txn, amount) ==
  LET client == db.clients[txn.client_id]
      credited == [client EXCEPT !.available = client.available + amount]
  IN  [WithClient(db, txn.client_id, credited)
         EXCEPT !.transactions = IF txn.txn_id \in DOMAIN db.transactions
                                   THEN db.transactions
                                   ELSE MapInsert(db.transactions, txn.txn_id, txn)]

\* (TransactionType::Deposit, _, Some(amount))
arm_Deposit(db, txn, amount) ==
  LET client == db.clients[txn.client_id]
      credited == [client EXCEPT !.available = client.available + amount]
  IN  [WithClient(db, txn.client_id, credited)
         EXCEPT !.transactions = MapInsert(db.transactions, txn.txn_id, txn)]

\* A variant of arm_Withdrawal whose funds test is off by one: it also refuses a
\* withdrawal of the whole available balance.
arm_Withdrawal_strict(db, txn, amount) ==
  LET client == db.clients[txn.client_id]
      debited == IF client.available - amount <= 0
                   THEN client
                   ELSE [client EXCEPT !.available = client.available - amount]
  IN  [WithClient(db, txn.client_id, debited)
         EXCEPT !.transactions = MapInsert(db.transactions, txn.txn_id, txn)]

\* A variant of arm_Withdrawal that locks the account on insufficient funds.
arm_Withdrawal_locking(db, txn, amount) ==
  LET client == db.clients[txn.client_id]
      debited == IF client.available - amount < 0
                   THEN [client EXCEPT !.locked = TRUE]
                   ELSE [client EXCEPT !.available = client.available - amount]
  IN  [WithClient(db, txn.client_id, debited)
         EXCEPT !.transactions = MapInsert(db.transactions, txn.txn_id, txn)]

\* (TransactionType::Withdrawal, _, Some(amount))
arm_Withdrawal(db, txn, amount) ==
  LET client == db.clients[txn.client_id]
      debited == IF client.available - amount < 0
                   THEN client
                   ELSE [client EXCEPT !.available = client.available - amount]
  IN  [WithClient(db, txn.client_id, debited)
         EXCEPT !.transactions = MapInsert(db.transactions, txn.txn_id, txn)]

\* A variant of arm_Dispute that holds the amount without taking it from available.
arm_Dispute_keeps_available(db, txn, stored, amount) ==
  LET client == db.clients[txn.client_id]
  IN  IF stored.client_id # txn.client_id
        THEN db
        ELSE WithClient(db, txn.client_id,
               [client EXCEPT !.held = client.held + amount,
                              !.disputed = client.disputed \cup {stored.txn_id}])

\* A variant of arm_Dispute that moves the funds and forgets to mark the txn_id.
arm_Dispute_unmarked(db, txn, stored, amount) ==
  LET client == db.clients[txn.client_id]
  IN  IF stored.client_id # txn.client_id
        THEN db
        ELSE WithClient(db, txn.client_id,
               [client EXCEPT !.held = client.held + amount,
                              !.available = client.available - amount])

\* A variant of arm_Dispute without the ownership test, acting on the account of
\* the stored transaction's client.
arm_Dispute_on_owner(db, txn, stored, amount) ==
  LET client == db.clients[stored.client_id]
  IN  WithClient(db, stored.client_id,
        [client EXCEPT !.held = client.held + amount,
                       !.available = client.available - amount,
                       !.disputed = client.disputed \cup {stored.txn_id}])

\* A variant of arm_Dispute without the ownership test: the caller disputes
\* whatever is stored under the txn_id.
arm_Dispute_unowned(db, txn, stored, amount) ==
  LET client == db.clients[txn.client_id]
  IN  WithClient(db, txn.client_id,
        [client EXCEPT !.held = client.held + amount,
                       !.available = client.available - amount,
                       !.disputed = client.disputed \cup {stored.txn_id}])

\* A variant of arm_Dispute that also stores the Dispute under its txn_id, as the
\* Deposit and Withdrawal arms do.
arm_Dispute_recorded(db, txn, stored, amount) ==
  LET client == db.clients[txn.client_id]
  IN  IF stored.client_id # txn.client_id
        THEN db
        ELSE [WithClient(db, txn.client_id,
                [client EXCEPT !.held = client.held + amount,
                               !.available = client.available - amount,
                               !.disputed = client.disputed \cup {stored.txn_id}])
                EXCEPT !.transactions = MapInsert(db.transactions, txn.txn_id, txn)]

\* A variant of arm_Dispute that lets only Deposits be disputed.
arm_Dispute_deposits_only(db, txn, stored, amount) ==
  LET client == db.clients[txn.client_id]
  IN  IF stored.client_id # txn.client_id \/ stored.transaction_type # "Deposit"
        THEN db
        ELSE WithClient(db, txn.client_id,
               [client EXCEPT !.held = client.held + amount,
                              !.available = client.available - amount,
                              !.disputed = client.disputed \cup {stored.txn_id}])

\* (TransactionType::Dispute, Some(Transaction {client_id, amount: Some(amount), txn_id, ..}), ..)
arm_Dispute(db, txn, stored, amount) ==
  LET client == db.clients[txn.client_id]
  IN  IF stored.client_id # txn.client_id
        THEN db
        ELSE WithClient(db, txn.client_id,
               [client EXCEPT !.held = client.held + amount,
                              !.available = client.available - amount,
                              !.disputed = client.disputed \cup {stored.txn_id}])

\* A variant of arm_Resolve without the test that the txn_id is under dispute.
arm_Resolve_unchecked(db, txn, stored, amount) ==
  LET client == db.clients[txn.client_id]
  IN  IF stored.client_id # txn.client_id
        THEN db
        ELSE WithClient(db, txn.client_id,
               [client EXCEPT !.available = client.available + amount,
                              !.held = client.held - amount])

\* (TransactionType::Resolve, Some(Transaction {client_id, amount: Some(amount), txn_id, ..}), ..)
arm_Resolve(db, txn, stored, amount) ==
  LET client == db.clients[txn.client_id]
  IN  IF stored.client_id # txn.client_id
        THEN db
        ELSE IF stored.txn_id \in client.disputed
               THEN WithClient(db, txn.client_id,
                      [client EXCEPT !.available = client.available + amount,
                                     !.held = client.held - amount])
               ELSE db

\* A variant of arm_ChargeBack that takes the held funds and forgets to lock.
arm_ChargeBack_no_lock(db, txn, stored, amount) ==
  LET client == db.clients[txn.client_id]
  IN  IF stored.client_id # txn.client_id
        THEN db
        ELSE IF stored.txn_id \in client.disputed
               THEN WithClient(db, txn.client_id,
                      [client EXCEPT !.held = client.held - amount])
               ELSE db

\* (TransactionType::ChargeBack, Some(Transaction {client_id, amount: Some(amount), txn_id, ..}), ..)
arm_ChargeBack(db, txn, stored, amount) ==
  LET client == db.clients[txn.client_id]
  IN  IF stored.client_id # txn.client_id
        THEN db
        ELSE IF stored.txn_id \in client.disputed
               THEN WithClient(db, txn.client_id,
                      [client EXCEPT !.held = client.held - amount,
                                     !.locked = TRUE])
               ELSE db

\* A variant of match_transaction that takes an absent amount of a Deposit or
\* Withdrawal for zero (unwrap_or_default) instead of falling through.
match_transaction_default_amount(db, txn) ==
  LET found == transactions_get(db.transactions, txn.txn_id)
      refers == found # None /\ found[1].amount # None
      amount == IF txn.amount # None THEN txn.amount[1] ELSE 0
  IN  CASE txn.transaction_type = "Deposit" ->
             arm_Deposit(db, txn, amount)
        [] txn.transaction_type = "Withdrawal" ->
             arm_Withdrawal(db, txn, amount)
        [] txn.transaction_type = "Dispute" /\ refers ->
             arm_Dispute(db, txn, found[1], found[1].amount[1])
        [] txn.transaction_type = "Resolve" /\ refers ->
             arm_Resolve(db, txn, found[1], found[1].amount[1])
        [] txn.transaction_type = "ChargeBack" /\ refers ->
             arm_ChargeBack(db, txn, found[1], found[1].amount[1])
        [] OTHER -> db

\* A variant of match_transaction that remembers a Dispute of a txn_id not stored
\* yet: it marks the txn_id as disputed for the caller.
match_transaction_pending_dispute(db, txn) ==
  LET found == transactions_get(db.transactions, txn.txn_id)
      refers == found # None /\ found[1].amount # None
      client == db.clients[txn.client_id]
  IN  CASE txn.transaction_type = "Deposit" /\ txn.amount # None ->
             arm_Deposit(db, txn, txn.amount[1])
        [] txn.transaction_type = "Withdrawal" /\ txn.amount # None ->
             arm_Withdrawal(db, txn, txn.amount[1])
        [] txn.transaction_type = "Dispute" /\ refers ->
             arm_Dispute(db, txn, found[1], found[1].amount[1])
        [] txn.transaction_type = "Dispute" /\ found = None ->
             WithClient(db, txn.client_id,
               [client EXCEPT !.disputed = client.disputed \cup {txn.txn_id}])
        [] txn.transaction_type = "Resolve" /\ refers ->
             arm_Resolve(db, txn, found[1], found[1].amount[1])
        [] txn.transaction_type = "ChargeBack" /\ refers ->
             arm_ChargeBack(db, txn, found[1], found[1].amount[1])
        [] OTHER -> db

\* The match on (&txn.transaction_type, db.transactions.get(&txn.txn_id), txn.amount),
\* its arms tried in the order of the source.
match_transaction(db, txn) ==
  LET found == transactions_get(db.transactions, txn.txn_id)
      refers == found # None /\ found[1].amount # None
  IN  CASE txn.transaction_type = "Deposit" /\ txn.amount # None ->
             arm_Deposit(db, txn, txn.amount[1])
        [] txn.transaction_type = "Withdrawal" /\ txn.amount # None ->
             arm_Withdrawal(db, txn, txn.amount[1])
        [] txn.transaction_type = "Dispute" /\ refers ->
             arm_Dispute(db, txn, found[1], found[1].amount[1])
        [] txn.transaction_type = "Resolve" /\ refers ->
             arm_Resolve(db, txn, found[1], found[1].amount[1])
        [] txn.transaction_type = "ChargeBack" /\ refers ->
             arm_ChargeBack(db, txn, found[1], found[1].amount[1])
        [] OTHER -> db

\* A variant of handle_transaction without the early return for a locked client.
handle_transaction_no_lock_check(db, txn) ==
  match_transaction([db EXCEPT !.clients = entry_or_insert(db.clients, txn.client_id)], txn)

\* fn handle_transaction(db: &mut Database, txn: Transaction) -> Result<()>
handle_transaction(db, txn) ==
  LET entered == [db EXCEPT !.clients = entry_or_insert(db.clients, txn.client_id)]
  IN  IF entered.clients[txn.client_id].locked
        THEN entered
        ELSE match_transaction(entered, txn)

\* The diagnostic (eprintln!) handle_transaction emits for txn in db; "none" when
\* the transaction is applied without one.
diagnostic(db, txn) ==
  LET clients == entry_or_insert(db.clients, txn.client_id)
      client == clients[txn.client_id]
      found == transactions_get(db.transactions, txn.txn_id)
      refers == found # None /\ found[1].amount # None
      family == {"Dispute", "Resolve", "ChargeBack"}
  IN  CASE client.locked -> "locked"
        [] txn.transaction_type = "Deposit" /\ txn.amount # None -> "none"
        [] txn.transaction_type = "Withdrawal" /\ txn.amount # None ->
             IF client.available - txn.amount[1] < 0 THEN "insufficient funds" ELSE "none"
        [] txn.transaction_type \in family /\ refers ->
             IF found[1].client_id # txn.client_id THEN "not its transaction"
             ELSE IF txn.transaction_type = "Dispute" THEN "none"
             ELSE IF found[1].txn_id \in client.disputed THEN "none"
             ELSE "not disputed"
        [] OTHER -> "Unknown transaction type"

\* A variant of handle_transaction_result that reports a withdrawal refused for
\* insufficient funds as an error.
handle_transaction_result_strict(db, txn) ==
  IF diagnostic(db, txn) = "insufficient funds" THEN "Err" ELSE "Ok"

\* The value handle_transaction returns: Ok(()) from the early return for a locked
\* client, Ok(()) after the match.
handle_transaction_result(db, txn) ==
  IF entry_or_insert(db.clients, txn.client_id)[txn.client_id].locked
    THEN "Ok"
    ELSE "Ok"

VARIABLES
  transactions,  \* Database.transactions
  clients,       \* Database.clients
  step,          \* the number of records run_engine has handled
  last,          \* the transaction of the latest handle_transaction call, if any
  pre,           \* the database as that call found it
  diag,          \* the diagnostic that call emitted
  deposited,     \* per client, the sum of the amounts of its applied deposits
  withdrawn,     \* per client, the sum of the amounts of its applied withdrawals
  charged_back,  \* per client, the sum of the amounts its applied chargebacks took from held
  result,        \* what the latest handle_transaction call returned
  seen_ids,      \* the txn_ids of the Deposit and Withdrawal records handled so far
  unique,        \* no Deposit or Withdrawal record so far repeated the txn_id of an earlier one
  reader_0,      \* tests::order_does_not_matter: the records of the first file
  reader_1,      \* the records of the second file, the first one's in another order
  order,         \* order[i]: the place in reader_1 of record i of reader_0
  db_0,          \* the database run_engine fills from reader_0
  db_1,          \* the database run_engine fills from reader_1
  pos,           \* the number of records both runs have handled
  premature      \* the place in reader_0 of the record reader_1 leaves out; 0 when none

engine_vars ==
  <<transactions, clients, step, last, pre, diag, deposited, withdrawn, charged_back,
    result, seen_ids, unique>>
order_vars == <<reader_0, reader_1, order, db_0, db_1, pos, premature>>
vars == <<engine_vars, order_vars>>

database == [transactions |-> transactions, clients |-> clients]

\* The amount an applied transaction moves: its own for a Deposit or Withdrawal,
\* the stored one for a ChargeBack.
moved(db, txn) ==
  IF txn.transaction_type \in {"Deposit", "Withdrawal"}
    THEN txn.amount[1]
    ELSE db.transactions[txn.txn_id].amount[1]

Tally(total, db, txn, kind) ==
  IF txn.transaction_type = kind /\ diagnostic(db, txn) = "none"
    THEN [total EXCEPT ![txn.client_id] = @ + moved(db, txn)]
    ELSE total

\* let mut db = Database::default(); no record handled yet.
engine_init ==
  /\ transactions = DefaultDatabase.transactions
  /\ clients = DefaultDatabase.clients
  /\ step = 0
  /\ last = None
  /\ pre = DefaultDatabase
  /\ diag = "none"
  /\ deposited = [c \in ClientIds |-> 0]
  /\ withdrawn = [c \in ClientIds |-> 0]
  /\ charged_back = [c \in ClientIds |-> 0]
  /\ result = "Ok"
  /\ seen_ids = {}
  /\ unique = TRUE

\* No second run is going on.
order_idle ==
  /\ reader_0 = <<>>
  /\ reader_1 = <<>>
  /\ order = <<>>
  /\ db_0 = DefaultDatabase
  /\ db_1 = DefaultDatabase
  /\ pos = 0
  /\ premature = 0

Init == engine_init /\ order_idle

\* One iteration of run_engine's loop: handle_transaction(&mut db, txn)?
\* The ? leaves the loop on an Err.
run_engine_step(txn) ==
  /\ step < MaxFeed
  /\ result = "Ok"
  /\ LET db == handle_transaction(database, txn)
     IN  /\ transactions' = db.transactions
         /\ clients' = db.clients
  /\ step' = step + 1
  /\ last' = Some(txn)
  /\ pre' = database
  /\ diag' = diagnostic(database, txn)
  /\ deposited' = Tally(deposited, database, txn, "Deposit")
  /\ withdrawn' = Tally(withdrawn, database, txn, "Withdrawal")
  /\ charged_back' = Tally(charged_back, database, txn, "ChargeBack")
  /\ result' = handle_transaction_result(database, txn)
  /\ seen_ids' = IF txn.transaction_type \in {"Deposit", "Withdrawal"}
                   THEN seen_ids \cup {txn.txn_id}
                   ELSE seen_ids
  /\ unique' = (unique /\ ~(txn.transaction_type \in {"Deposit", "Withdrawal"}
                               /\ txn.txn_id \in seen_ids))
  /\ UNCHANGED order_vars

Deposit ==
  \E txn \in Transaction :
    /\ txn.transaction_type = "Deposit"
    /\ run_engine_step(txn)

Withdrawal ==
  \E txn \in Transaction :
    /\ txn.transaction_type = "Withdrawal"
    /\ run_engine_step(txn)

Dispute ==
  \E txn \in Transaction :
    /\ txn.transaction_type = "Dispute"
    /\ run_engine_step(txn)

Resolve ==
  \E txn \in Transaction :
    /\ txn.transaction_type = "Resolve"
    /\ run_engine_step(txn)

ChargeBack ==
  \E txn \in Transaction :
    /\ txn.transaction_type = "ChargeBack"
    /\ run_engine_step(txn)


Next == Deposit \/ Withdrawal \/ Dispute \/ Resolve \/ ChargeBack

Spec == Init /\ [][Next]_vars

(***************************************************************************)
(* tests::order_does_not_matter: two runs of run_engine from empty         *)
(* databases, over a feed and over the same records in another order.      *)
(***************************************************************************)

\* The records a feed is made of: a Deposit or Withdrawal carries an amount, a
\* Dispute, Resolve or ChargeBack carries none.
Record ==
  {txn \in Transaction :
     (txn.transaction_type \in {"Deposit", "Withdrawal"}) <=> (txn.amount # None)}

Orders(n) == {p \in [1..n -> 1..n] : \A i, j \in 1..n : p[i] = p[j] => i = j}

\* The feed whose record at place p[i] is feed[i].
Reordered(feed, p) ==
  [k \in 1..Len(feed) |-> feed[CHOOSE i \in 1..Len(feed) : p[i] = k]]

\* Every Dispute, Resolve or ChargeBack that follows a Deposit or Withdrawal of
\* its txn_id in the feed still follows it in the other order.
Causal(feed, p) ==
  \A i, j \in 1..Len(feed) :
    ( /\ j < i
      /\ feed[i].transaction_type \in {"Dispute", "Resolve", "ChargeBack"}
      /\ feed[j].transaction_type \in {"Deposit", "Withdrawal"}
      /\ feed[j].txn_id = feed[i].txn_id ) => p[j] < p[i]

\* The records of each client keep their order.
PerClientOrder(feed, p) ==
  \A i, j \in 1..Len(feed) :
    (i < j /\ feed[i].client_id = feed[j].client_id) => p[i] < p[j]

\* The txn_ids of the feed's Deposits and Withdrawals are pairwise distinct.
DistinctTxnIds(feed) ==
  \A i, j \in 1..Len(feed) :
    ( /\ i # j
      /\ feed[i].transaction_type \in {"Deposit", "Withdrawal"}
      /\ feed[j].transaction_type \in {"Deposit", "Withdrawal"} ) =>
      feed[i].txn_id # feed[j].txn_id

\* Two empty databases, a feed, and a causally valid reordering of it.
OrderInit ==
  /\ engine_init
  /\ \E n \in 1..MaxReorder :
       \E feed \in [1..n -> Record] :
         \E p \in Orders(n) :
           /\ Causal(feed, p)
           /\ reader_0 = feed
           /\ reader_1 = Reordered(feed, p)
           /\ order = p
  /\ db_0 = DefaultDatabase
  /\ db_1 = DefaultDatabase
  /\ pos = 0
  /\ premature = 0

\* Each run handles its next record.
run_engines ==
  /\ pos < Len(reader_0)
  /\ db_0' = handle_transaction(db_0, reader_0[pos + 1])
  /\ db_1' = handle_transaction(db_1, reader_1[pos + 1])
  /\ pos' = pos + 1
  /\ UNCHANGED <<reader_0, reader_1, order, premature, engine_vars>>

OrderNext == run_engines

OrderSpec == OrderInit /\ [][OrderNext]_vars

both_done == pos = Len(reader_0)

(***************************************************************************)
(* Two runs of run_engine from empty databases, over a feed that holds a   *)
(* Dispute, Resolve or ChargeBack ahead of the Deposit or Withdrawal it    *)
(* refers to, and over the same feed without that record.                  *)
(***************************************************************************)

\* Record k of the feed is a Dispute, Resolve or ChargeBack, no Deposit or
\* Withdrawal of its txn_id comes before it, and one comes after it.
Premature(feed, k) ==
  /\ feed[k].transaction_type \in {"Dispute", "Resolve", "ChargeBack"}
  /\ \A j \in 1..(k - 1) :
       feed[j].transaction_type \in {"Deposit", "Withdrawal"} =>
         feed[j].txn_id # feed[k].txn_id
  /\ \E j \in (k + 1)..Len(feed) :
       /\ feed[j].transaction_type \in {"Deposit", "Withdrawal"}
       /\ feed[j].txn_id = feed[k].txn_id

\* The feed without its record k.
Without(feed, k) ==
  [i \in 1..(Len(feed) - 1) |-> IF i < k THEN feed[i] ELSE feed[i + 1]]

PrematureInit ==
  /\ engine_init
  /\ \E n \in 2..MaxPremature :
       \E feed \in [1..n -> Record] :
         \E k \in 1..n :
           /\ Premature(feed, k)
           /\ reader_0 = feed
           /\ reader_1 = Without(feed, k)
           /\ premature = k
  /\ order = <<>>
  /\ db_0 = DefaultDatabase
  /\ db_1 = DefaultDatabase
  /\ pos = 0

\* The first run handles its next record; so does the second, unless that
\* record is the one its feed leaves out.
run_with_and_without ==
  /\ pos < Len(reader_0)
  /\ db_0' = handle_transaction(db_0, reader_0[pos + 1])
  /\ db_1' = IF pos + 1 = premature
              THEN db_1
              ELSE handle_transaction(db_1, reader_1[IF pos + 1 > premature THEN pos ELSE pos + 1])
  /\ pos' = pos + 1
  /\ UNCHANGED <<reader_0, reader_1, order, premature, engine_vars>>

PrematureNext == run_with_and_without

PrematureSpec == PrematureInit /\ [][PrematureNext]_vars

(***************************************************************************)
(* Vocabulary of the properties: the latest call, the client it names as   *)
(* the call found it (a client not seen before is found as the default     *)
(* record) and as the call left it.                                        *)
(***************************************************************************)
called == last # None
txn_of_call == last[1]
caller == txn_of_call.client_id
before == entry_or_insert(pre.clients, caller)[caller]
after == clients[caller]
total(client) == client.available + client.held
family == {"Dispute", "Resolve", "ChargeBack"}

\* The call found its txn_id stored, owned by the caller.
refers_to_own == /\ txn_of_call.txn_id \in DOMAIN pre.transactions
                 /\ pre.transactions[txn_of_call.txn_id].client_id = caller
referred_amount == pre.transactions[txn_of_call.txn_id].amount[1]

\* Every client record the call found is as it was, and the call created none
\* but (at most) the caller's.
others_unchanged ==
  /\ \A c \in DOMAIN pre.clients : c # caller => c \in DOMAIN clients /\ clients[c] = pre.clients[c]
  /\ \A c \in DOMAIN clients : c # caller => c \in DOMAIN pre.clients

\* C1. Lock finality: a call naming a client it finds locked leaves that client's
\* available, held, disputed and locked, and the transaction store, unchanged,
\* whatever its kind, txn_id and amount; and no call by anyone unlocks a client.
C1_LockFinality ==
  called =>
    /\ \A c \in DOMAIN pre.clients : pre.clients[c].locked =>
         c \in DOMAIN clients /\ clients[c].locked
    /\ (caller \in DOMAIN pre.clients /\ pre.clients[caller].locked) =>
         /\ after = pre.clients[caller]
         /\ transactions = pre.transactions

C1_Witness ==
  /\ called
  /\ caller \in DOMAIN pre.clients
  /\ pre.clients[caller].locked
  /\ txn_of_call.transaction_type = "Deposit"
  /\ txn_of_call.amount # None

\* C2. Balance conservation: after every step, for every client, available + held
\* is the sum of its applied deposits minus the sum of its applied withdrawals
\* minus the sum its applied chargebacks took from held (a client with no record
\* has none of the three); a Dispute or a Resolve leaves available + held of
\* every client as it was.
C2_BalanceConservation ==
  /\ \A c \in DOMAIN clients :
       total(clients[c]) = deposited[c] - withdrawn[c] - charged_back[c]
  /\ \A c \in ClientIds \ DOMAIN clients :
       deposited[c] = 0 /\ withdrawn[c] = 0 /\ charged_back[c] = 0
  /\ (called /\ txn_of_call.transaction_type \in {"Dispute", "Resolve"}) =>
       /\ total(after) = total(before)
       /\ others_unchanged

C2_Witness ==
  \E c \in DOMAIN clients :
    deposited[c] > 0 /\ withdrawn[c] > 0 /\ charged_back[c] > 0

\* C3 as stated. Order independence: the runs over a feed and over any causally
\* valid reordering of it end with identical client states.
C3_OrderIndependence ==
  both_done => db_0.clients = db_1.clients

\* C3 as amended. The runs end with identical client states when, besides, the
\* txn_ids of the feed's Deposits and Withdrawals are pairwise distinct and the
\* reordering keeps the records of each client in their order.
C3_OrderIndependencePerClient ==
  (both_done /\ DistinctTxnIds(reader_0) /\ PerClientOrder(reader_0, order)) =>
    db_0.clients = db_1.clients

C3_Witness ==
  /\ both_done
  /\ DistinctTxnIds(reader_0)
  /\ PerClientOrder(reader_0, order)
  /\ reader_1 # reader_0
  /\ \A c \in ClientIds : c \in DOMAIN db_0.clients /\ total(db_0.clients[c]) > 0
  /\ \E c \in ClientIds : db_0.clients[c].held > 0

\* The rejections of a Dispute, Resolve or ChargeBack that claim C4 lists: the
\* txn_id is not stored, or is stored for another client, or (Resolve and
\* ChargeBack) is not in the caller's disputed set.
C4_rejected(db, txn) ==
  /\ txn.transaction_type \in family
  /\ \/ txn.txn_id \notin DOMAIN db.transactions
     \/ db.transactions[txn.txn_id].client_id # txn.client_id
     \/ /\ txn.transaction_type \in {"Resolve", "ChargeBack"}
        /\ txn.txn_id \notin entry_or_insert(db.clients, txn.client_id)[txn.client_id].disputed

\* C4. A rejected Dispute, Resolve or ChargeBack emits a diagnostic and changes
\* neither the transaction store nor any client record it found; at most it
\* creates the default record of a caller not seen before.  Submitted again at
\* once, it is rejected again, with the same diagnostic and no change at all.
C4_IdempotentRejection ==
  (called /\ C4_rejected(pre, txn_of_call)) =>
    /\ diag # "none"
    /\ transactions = pre.transactions
    /\ \A c \in DOMAIN pre.clients : c \in DOMAIN clients /\ clients[c] = pre.clients[c]
    /\ \A c \in DOMAIN clients \ DOMAIN pre.clients : c = caller /\ clients[c] = DefaultClient
    /\ C4_rejected(database, txn_of_call)
    /\ diagnostic(database, txn_of_call) = diag
    /\ handle_transaction(database, txn_of_call) = database

C4_Witness ==
  /\ called
  /\ txn_of_call.transaction_type = "ChargeBack"
  /\ refers_to_own
  /\ ~before.locked
  /\ before.available > 0
  /\ txn_of_call.txn_id \notin before.disputed

\* C5. A Resolve by an unlocked client of a transaction it owns and has under
\* dispute adds the stored amount to available, takes it from held and removes
\* the txn_id from disputed.
C5_ResolveEffect ==
  ( /\ called
    /\ txn_of_call.transaction_type = "Resolve"
    /\ ~before.locked
    /\ refers_to_own
    /\ txn_of_call.txn_id \in before.disputed ) =>
    /\ after.available = before.available + referred_amount
    /\ after.held = before.held - referred_amount
    /\ txn_of_call.txn_id \notin after.disputed

\* C6. A ChargeBack by an unlocked client of a transaction it owns and has under
\* dispute takes the stored amount from held, leaves available and disputed as
\* they were (the txn_id stays disputed) and locks the client; once a chargeback
\* has been applied for a client, every transaction naming it is ignored.
C6_ChargeBackEffect ==
  /\ ( /\ called
       /\ txn_of_call.transaction_type = "ChargeBack"
       /\ ~before.locked
       /\ refers_to_own
       /\ txn_of_call.txn_id \in before.disputed ) =>
       /\ after.held = before.held - referred_amount
       /\ after.available = before.available
       /\ after.locked
       /\ txn_of_call.txn_id \in after.disputed
       /\ after.disputed = before.disputed
  /\ \A c \in DOMAIN clients : charged_back[c] > 0 =>
       \A txn \in Transaction :
         txn.client_id = c =>
           /\ diagnostic(database, txn) = "locked"
           /\ handle_transaction(database, txn) = database

C6_Witness ==
  /\ called
  /\ txn_of_call.transaction_type = "ChargeBack"
  /\ diag = "none"
  /\ after.locked
  /\ after.held = 0
  /\ after.available > 0

\* C7. A Dispute by an unlocked client of a transaction it owns moves the stored
\* amount from available to held and inserts the txn_id into disputed; locked,
\* available + held and the transaction store stay as they were.
C7_DisputeEffect ==
  ( /\ called
    /\ txn_of_call.transaction_type = "Dispute"
    /\ ~before.locked
    /\ refers_to_own ) =>
    /\ after.available = before.available - referred_amount
    /\ after.held = before.held + referred_amount
    /\ after.disputed = before.disputed \cup {txn_of_call.txn_id}
    /\ after.locked = before.locked
    /\ total(after) = total(before)
    /\ transactions = pre.transactions

C7_Witness ==
  /\ called
  /\ txn_of_call.transaction_type = "Dispute"
  /\ diag = "none"
  /\ txn_of_call.txn_id \notin before.disputed
  /\ after.held > 0
  /\ after.available > 0

\* C8. A Withdrawal with an amount by an unlocked client: with available - a < 0
\* the client record stays as it was (and is not locked); with available - a >= 0
\* available drops by exactly a and held, disputed and locked stay; either way
\* the Withdrawal is stored under its txn_id.
C8_WithdrawalEffect ==
  ( /\ called
    /\ txn_of_call.transaction_type = "Withdrawal"
    /\ txn_of_call.amount # None
    /\ ~before.locked ) =>
    /\ before.available - txn_of_call.amount[1] < 0 =>
         after = before /\ ~after.locked
    /\ before.available - txn_of_call.amount[1] >= 0 =>
         after = [before EXCEPT !.available = @ - txn_of_call.amount[1]]
    /\ txn_of_call.txn_id \in DOMAIN transactions
    /\ transactions[txn_of_call.txn_id] = txn_of_call

C8_Witness ==
  /\ called
  /\ txn_of_call.transaction_type = "Withdrawal"
  /\ txn_of_call.amount # None
  /\ ~before.locked
  /\ withdrawn[caller] > 0
  /\ before.available > 0
  /\ before.available - txn_of_call.amount[1] < 0

\* C9. A Deposit with an amount by an unlocked client is never rejected: available
\* grows by exactly a, held, locked and disputed stay, and the Deposit is stored
\* under its txn_id; a client not seen before starts from the default record.
C9_DepositEffect ==
  ( /\ called
    /\ txn_of_call.transaction_type = "Deposit"
    /\ txn_of_call.amount # None
    /\ ~before.locked ) =>
    /\ diag = "none"
    /\ after = [before EXCEPT !.available = @ + txn_of_call.amount[1]]
    /\ caller \notin DOMAIN pre.clients =>
         after = [available |-> txn_of_call.amount[1], held |-> 0,
                  locked |-> FALSE, disputed |-> {}]
    /\ txn_of_call.txn_id \in DOMAIN transactions
    /\ transactions[txn_of_call.txn_id] = txn_of_call

C9_Witness ==
  /\ called
  /\ txn_of_call.transaction_type = "Deposit"
  /\ txn_of_call.amount # None
  /\ caller \notin DOMAIN pre.clients
  /\ pre.clients # <<>>
  /\ after.available > 0

\* C10. Client isolation: a call changes no field of any client other than the
\* one it names and creates no other client's record, whatever its kind and
\* outcome; a Dispute, Resolve or ChargeBack of a transaction stored for another
\* client changes neither the caller's record nor the owner's.
C10_ClientIsolation ==
  called =>
    /\ others_unchanged
    /\ ( /\ txn_of_call.transaction_type \in family
         /\ txn_of_call.txn_id \in DOMAIN pre.transactions
         /\ pre.transactions[txn_of_call.txn_id].client_id # caller ) =>
         /\ after = before
         /\ transactions = pre.transactions

C10_Witness ==
  /\ called
  /\ txn_of_call.transaction_type = "Dispute"
  /\ txn_of_call.txn_id \in DOMAIN pre.transactions
  /\ pre.transactions[txn_of_call.txn_id].client_id # caller
  /\ ~before.locked
  /\ before.available > 0
  /\ clients[pre.transactions[txn_of_call.txn_id].client_id].available > 0

\* C11. Dispute-set ownership: while the txn_ids of the Deposits and Withdrawals
\* of the feed are pairwise distinct, every txn_id in a client's disputed set is
\* the key of a stored Deposit or Withdrawal of that same client.
C11_DisputedOwnership ==
  unique =>
    \A c \in DOMAIN clients :
      \A t \in clients[c].disputed :
        /\ t \in DOMAIN transactions
        /\ transactions[t].transaction_type \in {"Deposit", "Withdrawal"}
        /\ transactions[t].client_id = c

C11_Witness ==
  /\ unique
  /\ \E c \in DOMAIN clients :
       /\ clients[c].disputed # {}
       /\ \E t \in DOMAIN transactions : transactions[t].client_id # c

\* C12. The transaction store is append-only: every stored entry is a Deposit or
\* Withdrawal with its amount present; a Dispute, Resolve or ChargeBack, applied
\* or rejected, leaves the store as it was; and while the txn_ids of the Deposits
\* and Withdrawals of the feed are pairwise distinct, no call removes or changes
\* an entry it found.
C12_StoreAppendOnly ==
  /\ \A t \in DOMAIN transactions :
       /\ transactions[t].transaction_type \in {"Deposit", "Withdrawal"}
       /\ transactions[t].amount # None
  /\ (called /\ txn_of_call.transaction_type \in family) =>
       transactions = pre.transactions
  /\ (called /\ unique) =>
       \A t \in DOMAIN pre.transactions :
         t \in DOMAIN transactions /\ transactions[t] = pre.transactions[t]

C12_Witness ==
  /\ called
  /\ unique
  /\ txn_of_call.transaction_type = "ChargeBack"
  /\ diag = "none"
  /\ Cardinality(DOMAIN transactions) = 2

\* C13. No transaction aborts the run: every handle_transaction call returns Ok,
\* so that while records remain the loop goes on to the next one, whatever
\* transaction it is and however many were rejected before it.
C13_NoAbort ==
  /\ result = "Ok"
  /\ step < MaxFeed => \A txn \in Transaction : ENABLED run_engine_step(txn)

\* The whole feed was handled and every record of it was rejected.
C13_Witness ==
  /\ step = MaxFeed
  /\ diag # "none"
  /\ deposited = [c \in ClientIds |-> 0]
  /\ \A c \in DOMAIN clients : clients[c] = DefaultClient
  /\ DOMAIN clients = ClientIds
  /\ transactions # <<>>

\* A Dispute, Resolve or ChargeBack record of client c for the txn_id of the
\* latest call.
follow_up(kind, c) ==
  [transaction_type |-> kind, client_id |-> c,
   txn_id |-> txn_of_call.txn_id, amount |-> None]

\* C14. Duplicate txn_id: a Deposit or Withdrawal with an amount, by an unlocked
\* client, under a txn_id already stored has its usual balance effect and
\* replaces the stored entry.  What the earlier transactions did stays done:
\* no other client's record changes and every client's available + held still
\* is its applied deposits minus withdrawals minus chargebacks.  A later Dispute,
\* Resolve or ChargeBack of the txn_id goes by the second transaction: it moves
\* the second amount, for the second transaction's client only.
C14_DuplicateTxnId ==
  ( /\ called
    /\ txn_of_call.transaction_type \in {"Deposit", "Withdrawal"}
    /\ txn_of_call.amount # None
    /\ ~before.locked
    /\ txn_of_call.txn_id \in DOMAIN pre.transactions ) =>
    LET a == txn_of_call.amount[1]
        t == txn_of_call.txn_id
        disputing == handle_transaction(database, follow_up("Dispute", caller)).clients[caller]
        resolving == handle_transaction(database, follow_up("Resolve", caller)).clients[caller]
        charging == handle_transaction(database, follow_up("ChargeBack", caller)).clients[caller]
    IN  /\ transactions[t] = txn_of_call
        /\ txn_of_call.transaction_type = "Deposit" =>
             after = [before EXCEPT !.available = @ + a]
        /\ txn_of_call.transaction_type = "Withdrawal" =>
             after = [before EXCEPT !.available = IF @ - a < 0 THEN @ ELSE @ - a]
        /\ others_unchanged
        /\ \A c \in DOMAIN clients :
             total(clients[c]) = deposited[c] - withdrawn[c] - charged_back[c]
        /\ disputing = [after EXCEPT !.available = @ - a, !.held = @ + a,
                                     !.disputed = @ \cup {t}]
        /\ t \in after.disputed =>
             /\ resolving = [after EXCEPT !.available = @ + a, !.held = @ - a]
             /\ charging = [after EXCEPT !.held = @ - a, !.locked = TRUE]
        /\ \A c \in DOMAIN clients \ {caller} :
             \A kind \in family :
               /\ diagnostic(database, follow_up(kind, c)) \in {"not its transaction", "locked"}
               /\ handle_transaction(database, follow_up(kind, c)) = database

C14_Witness ==
  /\ called
  /\ txn_of_call.transaction_type = "Deposit"
  /\ txn_of_call.amount # None
  /\ ~before.locked
  /\ txn_of_call.txn_id \in DOMAIN pre.transactions
  /\ pre.transactions[txn_of_call.txn_id].client_id # caller
  /\ pre.transactions[txn_of_call.txn_id].amount # txn_of_call.amount
  /\ txn_of_call.txn_id \in
       clients[pre.transactions[txn_of_call.txn_id].client_id].disputed

\* C15. A dispute can be ended only once: right after an applied Resolve of a
\* txn_id, a further Resolve or ChargeBack of it by the same client is rejected
\* as not disputed and changes neither available, held nor locked.
C15_DisputeEndsOnce ==
  (called /\ txn_of_call.transaction_type = "Resolve" /\ diag = "none") =>
    \A kind \in {"Resolve", "ChargeBack"} :
      LET again == handle_transaction(database, follow_up(kind, caller)).clients[caller]
      IN  /\ diagnostic(database, follow_up(kind, caller)) = "not disputed"
          /\ again.available = after.available
          /\ again.held = after.held
          /\ again.locked = after.locked

\* The record of client c in db; the default record when db holds none.
account(db, c) == entry_or_insert(db.clients, c)[c]

\* C16 as stated. A Dispute, Resolve or ChargeBack handled before the Deposit or
\* Withdrawal it refers to has no effect: the run over the feed ends with the
\* client states of the run over the feed without it.
C16_PrematureHasNoEffect ==
  both_done => db_0.clients = db_1.clients

\* C16 as amended. The premature record is rejected, and at every point after it
\* the run over the feed and the run over the feed without it agree on the
\* store and on available, held, locked and disputed of every client (so the
\* Deposit or Withdrawal referred to is applied as usual and is not disputed);
\* the one difference is that the first run may hold a default record of the
\* premature record's client that the second has not created.
C16_PrematureOnlyCreatesClient ==
  /\ pos + 1 = premature =>
       diagnostic(db_0, reader_0[premature]) \in {"Unknown transaction type", "locked"}
  /\ db_0.transactions = db_1.transactions
  /\ \A c \in ClientIds : account(db_0, c) = account(db_1, c)
  /\ DOMAIN db_1.clients \subseteq DOMAIN db_0.clients
  /\ \A c \in DOMAIN db_0.clients \ DOMAIN db_1.clients :
       /\ pos >= premature
       /\ c = reader_0[premature].client_id
       /\ db_0.clients[c] = DefaultClient

\* The premature record's client appears nowhere else; the Deposit or Withdrawal
\* referred to arrived, was applied and was disputed afterwards.
C16_Witness ==
  /\ both_done
  /\ premature = 1
  /\ DOMAIN db_0.clients # DOMAIN db_1.clients
  /\ \E c \in DOMAIN db_1.clients :
       /\ db_1.clients[c].held > 0
       /\ db_1.clients[c].disputed = {reader_0[premature].txn_id}

\* The database the latest call found, with the kind of the entry it refers to
\* turned into Deposit.
pre_as_deposit ==
  [pre EXCEPT !.transactions[txn_of_call.txn_id].transaction_type = "Deposit"]

\* C17. Dispute does not look at the kind or the outcome of what it refers to: a
\* Dispute of a stored Withdrawal of amount a, refused for insufficient funds or
\* not, takes a from available, adds a to held and marks the txn_id, exactly as
\* it does when the stored entry is a Deposit of amount a.
C17_DisputeIgnoresKind ==
  ( /\ called
    /\ txn_of_call.transaction_type = "Dispute"
    /\ ~before.locked
    /\ refers_to_own
    /\ pre.transactions[txn_of_call.txn_id].transaction_type = "Withdrawal" ) =>
    /\ after = [before EXCEPT !.available = @ - referred_amount,
                              !.held = @ + referred_amount,
                              !.disputed = @ \cup {txn_of_call.txn_id}]
    /\ handle_transaction(pre_as_deposit, txn_of_call).clients = clients

\* The disputed Withdrawal had been refused for insufficient funds.
C17_Witness ==
  /\ called
  /\ txn_of_call.transaction_type = "Dispute"
  /\ ~before.locked
  /\ refers_to_own
  /\ pre.transactions[txn_of_call.txn_id].transaction_type = "Withdrawal"
  /\ withdrawn[caller] = 0
  /\ deposited[caller] > 0
  /\ after.held > 0

\* C18. A Deposit or Withdrawal without an amount, by an unlocked client, is
\* rejected with a diagnostic: the client's available, held, locked and disputed
\* stay as they were, no other client changes, and the store is left as it was
\* (nothing is recorded under the txn_id).
C18_MalformedRejected ==
  ( /\ called
    /\ txn_of_call.transaction_type \in {"Deposit", "Withdrawal"}
    /\ txn_of_call.amount = None
    /\ ~before.locked ) =>
    /\ diag = "Unknown transaction type"
    /\ after = before
    /\ others_unchanged
    /\ transactions = pre.transactions

C18_Witness ==
  /\ called
  /\ txn_of_call.transaction_type = "Withdrawal"
  /\ txn_of_call.amount = None
  /\ ~before.locked
  /\ before.available > 0
  /\ txn_of_call.txn_id \notin DOMAIN transactions

RECURSIVE stored_sum(_, _)
\* The sum of the stored amounts of the txn_ids in ids.
stored_sum(store, ids) ==
  IF ids = {} THEN 0
  ELSE LET t == CHOOSE x \in ids : TRUE
       IN  store[t].amount[1] + stored_sum(store, ids \ {t})

\* C19. Held funds match open disputes: while the txn_ids of the Deposits and
\* Withdrawals of the feed are pairwise distinct, the held balance of every
\* unlocked client is the sum of the stored amounts of its disputed txn_ids,
\* and so is never negative.
C19_HeldMatchesDisputes ==
  unique =>
    \A c \in DOMAIN clients :
      ~clients[c].locked =>
        /\ clients[c].held = stored_sum(transactions, clients[c].disputed)
        /\ clients[c].held >= 0

\* C20. Only a chargeback locks: a client is locked exactly when a ChargeBack of
\* one of its disputed transactions has been applied; a locked client has a
\* non-empty disputed set; and the only call that locks a client is an applied
\* ChargeBack naming it.
C20_OnlyChargeBackLocks ==
  /\ \A c \in DOMAIN clients :
       /\ clients[c].locked <=> charged_back[c] > 0
       /\ clients[c].locked => clients[c].disputed # {}
  /\ called =>
       \A c \in DOMAIN clients :
         (clients[c].locked /\ ~entry_or_insert(pre.clients, c)[c].locked) =>
           /\ c = caller
           /\ txn_of_call.transaction_type = "ChargeBack"
           /\ diag = "none"
           /\ txn_of_call.txn_id \in before.disputed

\* A Withdrawal refused for insufficient funds left its client unlocked while
\* some client is locked by an earlier ChargeBack.
C20_Witness ==
  /\ called
  /\ txn_of_call.transaction_type = "Withdrawal"
  /\ diag = "insufficient funds"
  /\ ~after.locked
  /\ \E c \in DOMAIN clients : clients[c].locked

====
